---- MODULE Spec2Model ----
(***************************************************************************)
(* The Common Lisp generator of the Thrift compiler, t_cl_generator.cc.    *)
(*                                                                         *)
(* Text is a sequence of strings whose concatenation is the text: the      *)
(* literals of the code are kept as one element each, data of the AST      *)
(* (names, string constants, documentation) is one element per character.  *)
(***************************************************************************)
EXTENDS Integers, Sequences, FiniteSets, TLC

\* program_   the program being generated (t_generator::program_)
\* build      the order in which the build evaluates the operands of one
\*            expression: left to right or right to left
\* phase      constructed, open (between init_generator and close_generator),
\*            closed, or aborted by a thrown string
\* indent_    the indentation depth (t_generator::indent_)
\* depth_lo   the lowest depth indent_ went through during the last call
\* f_types_   what was written to the type-declarations stream, one element
\*            per call that wrote; the file is their concatenation
\* f_vars_    the same for the constant-declarations stream
\* calls      the generate_* calls the driver has made, in order
\* ret        the last direct call of type_name, typespec or
\*            render_const_value, with what it returned or threw
VARIABLES program_, build, phase, indent_, depth_lo, f_types_, f_vars_, calls, ret

vars == <<program_, build, phase, indent_, depth_lo, f_types_, f_vars_, calls, ret>>

(***************************************************************************)
(* Bounds                                                                  *)
(***************************************************************************)
\* the number of declarations the driver hands to the generator in one run
MaxDecls == 2

(***************************************************************************)
(* Small helpers on sequences                                              *)
(***************************************************************************)
RECURSIVE Flatten(_)
Flatten(ss) == IF ss = <<>> THEN <<>> ELSE Head(ss) \o Flatten(Tail(ss))

IsPrefix(s, t) == Len(s) <= Len(t) /\ SubSeq(t, 1, Len(s)) = s

Contains(s, x) == \E i \in 1..Len(s) : s[i] = x

\* the element of a one-element set: {e(r) : r \in {x}} computes x once and
\* names it r in e
The(S) == CHOOSE y \in S : TRUE

(***************************************************************************)
(* Library conversions used by the generator                              *)
(***************************************************************************)
\* the character of one decimal digit
DigitChar(d) == <<"0", "1", "2", "3", "4", "5", "6", "7", "8", "9">>[d + 1]

RECURSIVE Digits(_)
Digits(n) == IF n < 10 THEN <<DigitChar(n)>> ELSE Digits(n \div 10) \o <<DigitChar(n % 10)>>

\* ostream << int64_t
FormatInteger(i) == IF i < 0 THEN <<"-">> \o Digits(0 - i) ELSE Digits(i)

\* ostream << double, for the doubles of the model: a double is held as its
\* number of tenths (15 is 1.5); a whole value prints without a fraction
FormatDouble(d) ==
  LET a == IF d < 0 THEN 0 - d ELSE d
      sign == IF d < 0 THEN <<"-">> ELSE <<>>
  IN IF a % 10 = 0 THEN sign \o Digits(a \div 10)
     ELSE sign \o Digits(a \div 10) \o <<".">> \o <<DigitChar(a % 10)>>

\* tolower of one character, over the characters the model's names use
LowerChar(c) ==
  CASE c = "A" -> "a" [] c = "B" -> "b" [] c = "C" -> "c" [] c = "O" -> "o"
    [] c = "P" -> "p" [] c = "S" -> "s" [] c = "T" -> "t" [] OTHER -> c

\* t_generator::lowercase
lowercase(s) == [i \in 1..Len(s) |-> LowerChar(s[i])]

\* t_generator::indent(): two spaces per level, nothing for a level <= 0
indent(n) == IF n <= 0 THEN <<>> ELSE [i \in 1..n |-> "  "]

endl == <<"\n">>

(***************************************************************************)
(* The AST the generator reads (t_program, t_type, t_field, t_const_value) *)
(***************************************************************************)
\* the null pointer of a t_program* and of a t_type*
NULL == "NULL"

Programs == {"main", "incA", "incB", "incC"}

\* t_program::get_namespace("cl"): empty when the program declares none
get_namespace(p) ==
  CASE p = "incA" -> <<"thrift-generated">>
    [] p = "incB" -> <<"other">>
    [] OTHER -> <<>>

\* constant values: mapVal holds the entries in the order the literal wrote
\* them, each with the address of its key object; fields the parser did not
\* set hold an indeterminate value g
CvInteger(i, g) ==
  [valType |-> "CV_INTEGER", intVal |-> i, doubleVal |-> g, stringVal |-> <<>>,
   listVal |-> <<>>, mapVal |-> <<>>]

CvDouble(d, g) ==
  [valType |-> "CV_DOUBLE", intVal |-> g, doubleVal |-> d, stringVal |-> <<>>,
   listVal |-> <<>>, mapVal |-> <<>>]

CvString(s, g) ==
  [valType |-> "CV_STRING", intVal |-> g, doubleVal |-> g, stringVal |-> s,
   listVal |-> <<>>, mapVal |-> <<>>]

CvList(l, g) ==
  [valType |-> "CV_LIST", intVal |-> g, doubleVal |-> g, stringVal |-> <<>>,
   listVal |-> l, mapVal |-> <<>>]

CvMap(m, g) ==
  [valType |-> "CV_MAP", intVal |-> g, doubleVal |-> g, stringVal |-> <<>>,
   listVal |-> <<>>, mapVal |-> m]

\* one (key, value) pair of a map literal, its key object at address a
Entry(k, v, a) == [first |-> k, second |-> v, addr |-> a]

\* the null pointer of a t_const_value*
NULL_VALUE ==
  [valType |-> "NULL", intVal |-> 0, doubleVal |-> 0, stringVal |-> <<>>,
   listVal |-> <<>>, mapVal |-> <<>>]

\* indeterminate values of a field that was never set
Garbage == {0, 7}

\* the two address orders of the keys of a two-entry literal
AddrOrders == {1, 2}

\* names and strings, one element per character
nName == <<"n", "m">>
nActive == <<"o", "n">>
nInner == <<"i", "n">>
nTags == <<"t", "g">>
nX == <<"x">>
nWhy == <<"w", "y">>
nZz == <<"z", "z">>
nYy == <<"y", "y">>
sAl == <<"A", "l">>
sQuote == <<"a", "\"", "b">>
sBackslash == <<"c", "\\">>

\* the literals of the model, for one choice of g and of the address order o
LitPerson(g, o) ==
  CvMap(<<Entry(CvString(nName, g), CvString(sAl, g), o),
          Entry(CvString(nActive, g), CvInteger(1, g), 3 - o)>>, g)

LitPersonRev(g, o) ==
  CvMap(<<Entry(CvString(nActive, g), CvInteger(0, g), o),
          Entry(CvString(nName, g), CvString(sQuote, g), 3 - o)>>, g)

LitUnknown(g) == CvMap(<<Entry(CvString(nZz, g), CvInteger(1, g), 1)>>, g)

LitTwoUnknown(g, o) ==
  CvMap(<<Entry(CvString(nZz, g), CvInteger(1, g), o),
          Entry(CvString(nYy, g), CvInteger(0, g), 3 - o)>>, g)

LitMixed(g, o) ==
  CvMap(<<Entry(CvString(nName, g), CvString(sAl, g), o),
          Entry(CvString(nZz, g), CvInteger(1, g), 3 - o)>>, g)

LitStrMap(g, o) ==
  CvMap(<<Entry(CvString(sQuote, g), CvInteger(12, g), o),
          Entry(CvString(sAl, g), CvInteger(-3, g), 3 - o)>>, g)

LitBox(g, o) ==
  CvMap(<<Entry(CvString(nInner, g), LitPerson(g, o), o),
          Entry(CvString(nTags, g), CvList(<<CvString(sAl, g)>>, g), 3 - o)>>, g)

LitBoxBad(g, o) ==
  CvMap(<<Entry(CvString(nInner, g), LitUnknown(g), o),
          Entry(CvString(nYy, g), CvInteger(1, g), 3 - o)>>, g)

LitBoxInner(g) == CvMap(<<Entry(CvString(nInner, g), LitUnknown(g), 1)>>, g)

LitInts(g) == CvList(<<CvInteger(1, g), CvInteger(12, g)>>, g)

LitStrs(g) == CvList(<<CvString(sAl, g), CvString(sQuote, g)>>, g)

Lits(g, o) ==
  { CvInteger(1, g), CvInteger(0, g), CvInteger(-3, g), CvDouble(15, g),
    CvDouble(-20, g), CvString(sAl, g), CvString(sQuote, g),
    CvString(sBackslash, g), CvString(<<>>, g),
    CvList(<<>>, g), LitInts(g), LitStrs(g), CvMap(<<>>, g),
    LitPerson(g, o), LitPersonRev(g, o), LitUnknown(g), LitTwoUnknown(g, o),
    LitMixed(g, o), LitStrMap(g, o), LitBox(g, o), LitBoxBad(g, o),
    LitBoxInner(g) }

Values == UNION {Lits(g, o) : g \in Garbage, o \in AddrOrders}

\* t_field
Field(n, t, k, v, d) ==
  [name |-> n, type |-> t, key |-> k, value |-> v, has_doc |-> d # <<>>, doc |-> d]

\* t_function
Function(n, args, r, xs, ow) ==
  [name |-> n, arglist |-> args, returntype |-> r, xceptions |-> xs, oneway |-> ow]

\* t_type and its subclasses, held in one record shape; types refer to each
\* other by identifier, as the AST does by pointer
Type0 ==
  [kind |-> "base", base |-> "", name |-> <<>>, program |-> NULL, elem |-> NULL,
   key |-> NULL, val |-> NULL, underlying |-> NULL, members |-> <<>>,
   has_doc |-> FALSE, doc |-> <<>>, constants |-> <<>>, extends |-> NULL,
   functions |-> <<>>]

BaseType(b) == [Type0 EXCEPT !.base = b, !.name = <<b>>]

StructType(k, n, p, m, d) ==
  [Type0 EXCEPT !.kind = k, !.name = n, !.program = p, !.members = m,
                !.has_doc = (d # <<>>), !.doc = d]

EnumType(n, p, cs) == [Type0 EXCEPT !.kind = "enum", !.name = n, !.program = p, !.constants = cs]

ListType(e) == [Type0 EXCEPT !.kind = "list", !.name = <<"list">>, !.elem = e]

SetType(e) == [Type0 EXCEPT !.kind = "set", !.name = <<"set">>, !.elem = e]

MapType(k, v) == [Type0 EXCEPT !.kind = "map", !.name = <<"map">>, !.key = k, !.val = v]

Typedef(n, p, u) == [Type0 EXCEPT !.kind = "typedef", !.name = n, !.program = p, !.underlying = u]

ServiceType(n, p, e, d, fs) ==
  [Type0 EXCEPT !.kind = "service", !.name = n, !.program = p, !.extends = e,
                !.has_doc = (d # <<>>), !.doc = d, !.functions = fs]

\* t_enum_value
EnumValue(n, hv, v) == [name |-> n, has_value |-> hv, value |-> v]

BaseIds == {"string", "bool", "byte", "i32", "double", "void"}

TypeIds ==
  BaseIds \cup
  {"Color", "Per", "Pt", "Box", "Oops", "Emp", "list_i32", "list_td", "set_string",
   "map_string_i32", "map_td_per", "TdI32", "TdTd", "TdPer", "TdList", "TdPt",
   "TdColor", "BaseSvc", "Svc", "Cal"}

\* the types of the model
TypeTable(id) ==
  CASE id \in BaseIds -> BaseType(id)
    [] id = "Color" ->
         EnumType(<<"C", "l">>, "incB",
                  <<EnumValue(<<"R">>, FALSE, 0), EnumValue(<<"G">>, TRUE, 5),
                    EnumValue(<<"B">>, FALSE, 0)>>)
    [] id = "Per" ->
         StructType("struct", <<"P", "e", "r">>, "main",
                    <<Field(nName, "string", 1, NULL_VALUE, sQuote),
                      Field(nActive, "bool", 2, CvInteger(1, 0), <<>>)>>, <<>>)
    [] id = "Pt" ->
         StructType("struct", <<"P", "t">>, "incB",
                    <<Field(nX, "TdI32", 1, CvInteger(12, 0), <<>>)>>, sQuote)
    [] id = "Box" ->
         StructType("struct", <<"B", "o", "x">>, "incA",
                    <<Field(nInner, "TdPer", 1, LitPerson(0, 2), <<>>),
                      Field(nTags, "set_string", 2, NULL_VALUE, <<>>)>>, <<>>)
    [] id = "Oops" ->
         StructType("xception", <<"O", "o", "p", "s">>, "incB",
                    <<Field(nWhy, "string", 1, NULL_VALUE, <<>>)>>, <<>>)
    [] id = "Emp" -> StructType("struct", <<"E", "m", "p">>, "incC", <<>>, <<>>)
    [] id = "list_i32" -> ListType("i32")
    [] id = "list_td" -> ListType("TdTd")
    [] id = "set_string" -> SetType("string")
    [] id = "map_string_i32" -> MapType("string", "i32")
    [] id = "map_td_per" -> MapType("TdColor", "TdPer")
    [] id = "TdI32" -> Typedef(<<"T", "i">>, "main", "i32")
    [] id = "TdTd" -> Typedef(<<"T", "t">>, "incB", "TdI32")
    [] id = "TdPer" -> Typedef(<<"T", "p">>, "incA", "Per")
    [] id = "TdList" -> Typedef(<<"T", "l">>, "main", "list_td")
    [] id = "TdPt" -> Typedef(<<"T", "q">>, "main", "Pt")
    [] id = "TdColor" -> Typedef(<<"T", "c">>, "incC", "Color")
    [] id = "BaseSvc" ->
         ServiceType(<<"B", "s">>, "incB", NULL, <<>>,
                     <<Function(<<"f">>, <<>>, "void", <<>>, TRUE)>>)
    [] id = "Svc" ->
         ServiceType(<<"S", "v">>, "main", "BaseSvc", sQuote,
                     <<Function(<<"g">>, <<Field(nX, "TdList", 1, NULL_VALUE, <<>>)>>,
                                "TdPt", <<Field(nWhy, "Oops", 1, NULL_VALUE, <<>>)>>, FALSE),
                       Function(<<"f">>, <<>>, "void", <<>>, TRUE),
                       Function(<<"h">>, <<Field(nX, "i32", 1, NULL_VALUE, <<>>),
                                           Field(nName, "Per", 2, NULL_VALUE, <<>>)>>,
                                "map_td_per",
                                <<Field(nWhy, "Oops", 1, NULL_VALUE, <<>>),
                                  Field(nZz, "Oops", 2, NULL_VALUE, <<>>)>>, TRUE)>>)
    [] id = "Cal" ->
         ServiceType(<<"C", "a">>, "incA", NULL, <<>>,
                     <<Function(<<"k">>, <<>>, "bool", <<>>, FALSE),
                       Function(<<"g">>, <<>>, "i32",
                                <<Field(nWhy, "Oops", 1, NULL_VALUE, <<>>)>>, FALSE)>>)


(***************************************************************************)
(* Name resolution and type specifications                                 *)
(***************************************************************************)
package_of(p) ==
  LET prefix == get_namespace(p)
  IN IF prefix = <<>> THEN <<"thrift-generated">> ELSE prefix

package == package_of(program_)

prefix(symbol) == <<"\"">> \o symbol \o <<"\"">>

\* std::replace(raw.begin(), raw.end(), '"', '\'')
cl_docstring(raw) == [i \in 1..Len(raw) |-> IF raw[i] = "\"" THEN "'" ELSE raw[i]]

\* t_generator::get_true_type: follow typedefs to the first type that is none
RECURSIVE get_true_type(_)
get_true_type(t) ==
  IF TypeTable(t).kind = "typedef" THEN get_true_type(TypeTable(t).underlying) ELSE t

\* type_name without the comparison of the two packages
type_name_always_prefixed(ttype) ==
  LET T == TypeTable(ttype)
      program == T.program
      pfx == IF program # NULL /\ program # program_
               THEN package_of(program) \o <<":">>
               ELSE <<>>
      name == IF T.kind = "struct" \/ T.kind = "xception"
                THEN lowercase(T.name) ELSE T.name
  IN pfx \o name

type_name(ttype) ==
  LET T == TypeTable(ttype)
      program == T.program
      pfx == IF program # NULL /\ program # program_
               THEN IF package_of(program) = package THEN <<>>
                    ELSE package_of(program) \o <<":">>
               ELSE <<>>
      name == IF T.kind = "struct" \/ T.kind = "xception"
                THEN lowercase(T.name) ELSE T.name
  IN pfx \o name

\* what a call returns: the text, or the string it threw
Return(text) == [thrown |-> FALSE, what |-> <<>>, out |-> text]

Throw(msg) == [thrown |-> TRUE, what |-> msg, out |-> <<>>]

\* the outcome of evaluating two operands a and b of one expression, each of
\* which may throw: the build fixes which is evaluated first
FirstThrown(a, b) ==
  IF build = "ltr" THEN (IF a.thrown THEN a ELSE b) ELSE (IF b.thrown THEN b ELSE a)

\* typespec without the resolution of typedefs
RECURSIVE typespec_unresolved(_)
typespec_unresolved(t) ==
  LET T == TypeTable(t)
  IN IF T.kind = "base" THEN Return(type_name(t))
     ELSE IF T.kind = "map" THEN
       The({ IF k.thrown \/ v.thrown THEN FirstThrown(k, v)
             ELSE Return(<<"(map ">> \o k.out \o <<" ">> \o v.out \o <<")">>)
             : k \in {typespec_unresolved(T.key)}, v \in {typespec_unresolved(T.val)} })
     ELSE IF T.kind = "struct" \/ T.kind = "xception" THEN
       Return(<<"(struct ">> \o prefix(type_name(t)) \o <<")">>)
     ELSE IF T.kind = "list" THEN
       The({ IF e.thrown THEN e ELSE Return(<<"(list ">> \o e.out \o <<")">>)
             : e \in {typespec_unresolved(T.elem)} })
     ELSE IF T.kind = "set" THEN
       The({ IF e.thrown THEN e ELSE Return(<<"(set ">> \o e.out \o <<")">>)
             : e \in {typespec_unresolved(T.elem)} })
     ELSE IF T.kind = "enum" THEN
       Return(<<"(enum \"">> \o T.name \o <<"\")">>)
     ELSE Throw(<<"Sorry, I don't know how to generate this: ">> \o type_name(t))

RECURSIVE typespec(_)
typespec(t0) ==
  LET t == get_true_type(t0)
      T == TypeTable(t)
  IN IF T.kind = "base" THEN Return(type_name(t))
     ELSE IF T.kind = "map" THEN
       The({ IF k.thrown \/ v.thrown THEN FirstThrown(k, v)
             ELSE Return(<<"(map ">> \o k.out \o <<" ">> \o v.out \o <<")">>)
             : k \in {typespec(T.key)}, v \in {typespec(T.val)} })
     ELSE IF T.kind = "struct" \/ T.kind = "xception" THEN
       Return(<<"(struct ">> \o prefix(type_name(t)) \o <<")">>)
     ELSE IF T.kind = "list" THEN
       The({ IF e.thrown THEN e ELSE Return(<<"(list ">> \o e.out \o <<")">>)
             : e \in {typespec(T.elem)} })
     ELSE IF T.kind = "set" THEN
       The({ IF e.thrown THEN e ELSE Return(<<"(set ">> \o e.out \o <<")">>)
             : e \in {typespec(T.elem)} })
     ELSE IF T.kind = "enum" THEN
       Return(<<"(enum \"">> \o T.name \o <<"\")">>)
     ELSE Throw(<<"Sorry, I don't know how to generate this: ">> \o type_name(t))

(***************************************************************************)
(* Constants                                                               *)
(***************************************************************************)
Min(a, b) == IF a < b THEN a ELSE b

\* what render_const_value returns: the text or the string it threw, the
\* indentation depth it leaves and the lowest depth it went through
Rendered(text, ind, lo) ==
  [thrown |-> FALSE, what |-> <<>>, out |-> text, ind |-> ind, lo |-> lo]

Thrown(msg, ind, lo) ==
  [thrown |-> TRUE, what |-> msg, out |-> <<>>, ind |-> ind, lo |-> lo]

\* begin() to end() of a std::map<t_const_value*, t_const_value*>: ascending
\* address of the key objects
RECURSIVE map_iteration(_)
map_iteration(m) ==
  IF m = <<>> THEN <<>>
  ELSE LET i == CHOOSE i \in 1..Len(m) : \A j \in 1..Len(m) : m[i].addr <= m[j].addr
       IN <<m[i]>> \o map_iteration(SubSeq(m, 1, i - 1) \o SubSeq(m, i + 1, Len(m)))

\* the search with the comparison of the names dropped
RECURSIVE find_field_type_any(_, _, _)
find_field_type_any(fields, n, field_type) ==
  IF fields = <<>> THEN field_type
  ELSE find_field_type_any(Tail(fields), n, Head(fields).type)

\* the type of the last field named n, NULL when there is none
RECURSIVE find_field_type(_, _, _)
find_field_type(fields, n, field_type) ==
  IF fields = <<>> THEN field_type
  ELSE find_field_type(Tail(fields), n,
                       IF Head(fields).name = n THEN Head(fields).type ELSE field_type)

\* the switch with a check of the value's variant in front of it
render_base_type_checked(tbase, value, ind) ==
  IF \/ tbase = "string" /\ value.valType # "CV_STRING"
     \/ tbase \in {"bool", "byte", "i32"} /\ value.valType # "CV_INTEGER"
     \/ tbase = "double" /\ value.valType \notin {"CV_INTEGER", "CV_DOUBLE"}
    THEN Thrown(<<"type error: const of wrong kind for ">> \o <<tbase>>, ind, ind)
  ELSE
  CASE tbase = "string" -> Rendered(<<"\"">> \o value.stringVal \o <<"\"">>, ind, ind)
    [] tbase = "bool" -> Rendered(IF value.intVal > 0 THEN <<"t">> ELSE <<"nil">>, ind, ind)
    [] tbase \in {"byte", "i32"} -> Rendered(FormatInteger(value.intVal), ind, ind)
    [] tbase = "double" ->
         Rendered(IF value.valType = "CV_INTEGER" THEN FormatInteger(value.intVal)
                  ELSE FormatDouble(value.doubleVal), ind, ind)
    [] OTHER -> Thrown(<<"compiler error: no const of base type ">> \o <<tbase>>, ind, ind)

\* the switch of render_const_value over the base types
render_base_type(tbase, value, ind) ==
  CASE tbase = "string" -> Rendered(<<"\"">> \o value.stringVal \o <<"\"">>, ind, ind)
    [] tbase = "bool" -> Rendered(IF value.intVal > 0 THEN <<"t">> ELSE <<"nil">>, ind, ind)
    [] tbase \in {"byte", "i32"} -> Rendered(FormatInteger(value.intVal), ind, ind)
    [] tbase = "double" ->
         Rendered(IF value.valType = "CV_INTEGER" THEN FormatInteger(value.intVal)
                  ELSE FormatDouble(value.doubleVal), ind, ind)
    [] OTHER -> Thrown(<<"compiler error: no const of base type ">> \o <<tbase>>, ind, ind)

\* the state of one call while it runs: the text written so far, the
\* indentation depth, the lowest depth gone through, and the string thrown
Running(text, ind, lo) == Rendered(text, ind, lo)

\* st after a nested call that returned r has joined its text to the output
Joined(st, text, r) == Rendered(st.out \o text, r.ind, Min(st.lo, r.lo))

\* st after a nested call threw r
Aborted(st, r) == Thrown(r.what, r.ind, Min(st.lo, r.lo))

\* st after indent_down
indent_down(st) == [st EXCEPT !.ind = st.ind - 1, !.lo = Min(st.lo, st.ind - 1)]

RECURSIVE render_const_value(_, _, _)
RECURSIVE render_struct_entries(_, _, _)
RECURSIVE render_map_entries(_, _, _)
RECURSIVE render_list_elems(_, _, _)

\* the loop over a struct literal's entries, val being what is left of them
render_struct_entries(t, val, st) ==
  IF val = <<>> \/ st.thrown THEN st
  ELSE
    LET T == TypeTable(t)
        v == Head(val)
        field_type == find_field_type(T.members, v.first.stringVal, NULL)
    IN IF field_type = NULL
         THEN Thrown(<<"type error: ">> \o T.name \o <<" has no field ">> \o v.first.stringVal,
                     st.ind, st.lo)
         ELSE The({ render_struct_entries(t, Tail(val), st2)
                    : st2 \in { IF r.thrown THEN Aborted(st, r)
                                \* indent() is read before or after the nested call
                                ELSE Joined(st,
                                            (IF build = "ltr" THEN indent(st.ind)
                                             ELSE indent(r.ind))
                                            \o <<":">> \o v.first.stringVal \o <<" ">>
                                            \o r.out \o endl, r)
                                : r \in {render_const_value(field_type, v.second, st.ind)} } })

\* the loop over a map literal's entries; the key and the value are rendered
\* in the order the build evaluates the operands of <<: a is the operand
\* rendered first, b the other one
render_map_entries(t, val, st) ==
  IF val = <<>> \/ st.thrown THEN st
  ELSE
    LET T == TypeTable(t)
        v == Head(val)
    IN The({ render_map_entries(t, Tail(val), st2)
             : st2 \in
                 { IF a.thrown THEN Aborted(st, a)
                   ELSE The({ IF b.thrown THEN Aborted([st EXCEPT !.lo = Min(st.lo, a.lo)], b)
                              ELSE Joined([st EXCEPT !.lo = Min(st.lo, a.lo)],
                                          endl \o indent(st.ind) \o <<"(cl:cons ">>
                                          \o (IF build = "ltr" THEN a.out ELSE b.out)
                                          \o <<" ">>
                                          \o (IF build = "ltr" THEN b.out ELSE a.out)
                                          \o <<")">>, b)
                              : b \in { IF build = "ltr"
                                          THEN render_const_value(T.val, v.second, a.ind)
                                          ELSE render_const_value(T.key, v.first, a.ind) } })
                   : a \in { IF build = "ltr" THEN render_const_value(T.key, v.first, st.ind)
                             ELSE render_const_value(T.val, v.second, st.ind) } } })

\* the loop over a list literal's elements
render_list_elems(etype, val, st) ==
  IF val = <<>> \/ st.thrown THEN st
  ELSE The({ render_list_elems(etype, Tail(val), st2)
             : st2 \in { IF r.thrown THEN Aborted(st, r)
                         ELSE Joined(st, indent(st.ind) \o r.out \o endl, r)
                         : r \in {render_const_value(etype, Head(val), st.ind)} } })

render_const_value(type0, value, ind) ==
  LET type == get_true_type(type0)
      T == TypeTable(type)
  IN IF T.kind = "base" THEN render_base_type(T.base, value, ind)
     ELSE IF T.kind = "enum" THEN
       Rendered(indent(ind) \o FormatInteger(value.intVal), ind, ind)
     ELSE IF T.kind = "struct" \/ T.kind = "xception" THEN
       The({ IF r.thrown THEN r
             ELSE indent_down([r EXCEPT !.out = r.out \o indent(r.ind) \o <<")">>])
             : r \in { render_struct_entries(
                         type, map_iteration(value.mapVal),
                         Running((IF T.kind = "struct" THEN <<"(make-instance '">>
                                  ELSE <<"(make-exception '">>)
                                 \o lowercase(T.name) \o <<" ">> \o endl,
                                 ind + 1, ind)) } })
     ELSE IF T.kind = "map" THEN
       The({ IF r.thrown THEN r
             ELSE The({ [d EXCEPT !.out = d.out \o indent(d.ind) \o <<")">>]
                        : d \in {indent_down(r)} })
             : r \in { render_map_entries(type, map_iteration(value.mapVal),
                                          Running(<<"(thrift:map ">>, ind + 1, ind)) } })
     ELSE IF T.kind = "list" \/ T.kind = "set" THEN
       The({ IF r.thrown THEN r
             ELSE indent_down(indent_down([r EXCEPT !.out = r.out \o indent(r.ind) \o <<")">>]))
             : r \in { render_list_elems(
                         T.elem, value.listVal,
                         Running(IF T.kind = "set" THEN <<"(thrift:set">> \o endl
                                 ELSE <<"(thrift:list">> \o endl,
                                 ind + 2, ind)) } })
     ELSE Thrown(<<"CANNOT GENERATE CONSTANT FOR TYPE: ">> \o T.name, ind, ind)

(***************************************************************************)
(* Declarations                                                            *)
(***************************************************************************)
\* t_program::get_includes and t_program::get_name
get_includes(p) == IF p = "main" THEN <<"incA", "incB", "incC">> ELSE <<>>

cl_autogen_comment ==
  <<";;; ", " -*- Package: ">> \o package \o <<" -*-\n", ";;;\n",
    ";;; Autogenerated by Thrift\n",
    ";;; DO NOT EDIT UNLESS YOU ARE SURE THAT YOU KNOW WHAT YOU ARE DOING\n">>

package_def ==
  LET includes == get_includes(program_)
  IN <<"(thrift:def-package :">> \o package
     \o (IF Len(includes) > 0
           THEN <<" :use (">> \o Flatten([i \in 1..Len(includes) |-> <<" :", includes[i]>>])
                \o <<")">>
           ELSE <<>>)
     \o <<")">> \o endl \o endl

package_in == <<"(in-package :">> \o package \o <<")">> \o endl \o endl

\* the loop of generate_enum over the enum's constants, value being the
\* number of the constant before
RECURSIVE enum_constants(_, _, _, _)
enum_constants(constants, first, value, ind) ==
  IF constants = <<>> THEN <<>>
  ELSE LET c == Head(constants)
           n == IF c.has_value THEN c.value ELSE value + 1
       IN (IF first THEN <<>> ELSE endl \o indent(ind) \o <<" ">>)
          \o <<"(\"">> \o c.name \o <<"\" . ">> \o FormatInteger(n) \o <<")">>
          \o enum_constants(Tail(constants), FALSE, n, ind)

\* what generate_enum writes, called at depth ind
enum_text(tenum, ind) ==
  LET T == TypeTable(tenum)
      up == ind + 1
  IN Rendered(<<"(thrift:def-enum ">> \o prefix(T.name) \o endl
              \o indent(up) \o <<"(">> \o enum_constants(T.constants, TRUE, -1, up)
              \o <<"))">> \o endl \o endl,
              up - 1, Min(ind, up - 1))

\* one turn of the loop of generate_cl_struct_internal: the entry of field m;
\* when a call throws, out is what the stream holds by then
struct_member(m, first, st) ==
  LET sep == IF first THEN <<>> ELSE endl \o indent(st.ind) \o <<" ">>
      open == sep \o <<"(">> \o prefix(m.name) \o <<" ">>
      doc == IF m.has_doc THEN <<" :documentation \"">> \o cl_docstring(m.doc) \o <<"\"">>
             ELSE <<>>
  IN The({ IF build = "ltr" /\ r.thrown
             THEN [Aborted(st, r) EXCEPT !.out = st.out \o open]
           ELSE IF build = "ltr" /\ ts.thrown
             THEN [Aborted(st, r) EXCEPT
                     !.what = ts.what, !.out = st.out \o open \o r.out \o <<" :type ">>]
           ELSE IF build = "rtl" /\ ts.thrown
             THEN [Thrown(ts.what, st.ind, st.lo) EXCEPT !.out = st.out \o sep]
           ELSE IF build = "rtl" /\ r.thrown
             THEN [Aborted(st, r) EXCEPT !.out = st.out \o sep]
           ELSE Joined(st, open \o r.out \o <<" :type ">> \o ts.out \o <<" :id ">>
                           \o FormatInteger(m.key) \o doc \o <<")">>, r)
           : r \in { IF m.value # NULL_VALUE
                       THEN render_const_value(m.type, m.value, st.ind)
                       ELSE Rendered(<<"nil">>, st.ind, st.ind) },
             ts \in {typespec(m.type)} })

\* the loop of generate_cl_struct_internal over the members
RECURSIVE struct_members(_, _, _)
struct_members(members, first, st) ==
  IF members = <<>> \/ st.thrown THEN st
  ELSE The({ struct_members(Tail(members), FALSE, st2)
             : st2 \in {struct_member(Head(members), first, st)} })

generate_cl_struct_internal(members, st) ==
  The({ IF r.thrown THEN r ELSE [r EXCEPT !.out = r.out \o <<")">>]
        : r \in {struct_members(members, TRUE, [st EXCEPT !.out = st.out \o <<"(">>])} })

\* generate_cl_struct without its indent_down
generate_cl_struct_unbalanced(tstruct, is_exception, ind) ==
  LET T == TypeTable(tstruct)
      name == type_name(tstruct)
      head == (IF is_exception THEN <<"(thrift:def-exception ">>
               ELSE <<"(thrift:def-struct ">>) \o prefix(name) \o endl
              \o (IF T.has_doc
                    THEN indent(ind + 1) \o <<"\"">> \o cl_docstring(T.doc) \o <<"\"">> \o endl
                    ELSE <<>>)
              \o indent(ind + 1)
  IN The({ IF r.thrown THEN r
           ELSE [r EXCEPT !.out = r.out \o <<")">> \o endl \o endl]
           : r \in {generate_cl_struct_internal(T.members, Running(head, ind + 1, ind))} })

\* what generate_cl_struct writes for tstruct, called at depth ind
generate_cl_struct(tstruct, is_exception, ind) ==
  LET T == TypeTable(tstruct)
      name == type_name(tstruct)
      head == (IF is_exception THEN <<"(thrift:def-exception ">>
               ELSE <<"(thrift:def-struct ">>) \o prefix(name) \o endl
              \o (IF T.has_doc
                    THEN indent(ind + 1) \o <<"\"">> \o cl_docstring(T.doc) \o <<"\"">> \o endl
                    ELSE <<>>)
              \o indent(ind + 1)
  IN The({ IF r.thrown THEN r
           ELSE The({ [d EXCEPT !.out = d.out \o <<")">> \o endl \o endl]
                      : d \in {indent_down(r)} })
           : r \in {generate_cl_struct_internal(T.members, Running(head, ind + 1, ind))} })

\* the loop of argument_list over the fields, res being the text so far
RECURSIVE argument_fields(_, _, _)
argument_fields(fields, first, res) ==
  IF fields = <<>> \/ res.thrown THEN res
  ELSE The({ argument_fields(Tail(fields), FALSE, res2)
             : res2 \in
                 { IF ts.thrown THEN ts
                   ELSE Return(res.out \o (IF first THEN <<>> ELSE <<" ">>) \o <<"(">>
                               \o prefix(Head(fields).name) \o <<" ">> \o ts.out \o <<" ">>
                               \o FormatInteger(Head(fields).key) \o <<")">>)
                   : ts \in {typespec(Head(fields).type)} } })

argument_list(fields) ==
  The({ IF r.thrown THEN r ELSE Return(r.out \o <<")">>)
        : r \in {argument_fields(fields, TRUE, Return(<<"(">>))} })

function_signature(tfunction) == argument_list(tfunction.arglist)

\* the exception members are written by the routine that writes a struct's
generate_exception_sig(f, st) == generate_cl_struct_internal(f.xceptions, st)

\* the entry with the exception clause written whatever the exceptions are
method_entry_always_exceptions(function, st) ==
  LET method == st.out \o endl \o indent(st.ind) \o <<"(:method ">> \o prefix(function.name)
  IN The({ IF signature.thrown THEN [Thrown(signature.what, st.ind, st.lo) EXCEPT !.out = st.out]
           ELSE IF ts.thrown THEN [Thrown(ts.what, st.ind, st.lo) EXCEPT !.out = method]
           ELSE The({ IF x.thrown THEN x
                      ELSE [x EXCEPT
                              !.out = x.out
                                      \o (IF function.oneway
                                            THEN endl \o indent(x.ind) \o <<" :oneway t">>
                                            ELSE <<>>)
                                      \o <<")">>]
                      : x \in { generate_exception_sig(
                                  function,
                                  [st EXCEPT
                                     !.out = method \o <<" (">> \o signature.out \o <<" ">>
                                             \o ts.out \o <<")">> \o endl \o indent(st.ind)
                                             \o <<" :exceptions ">>]) } })
           : signature \in {function_signature(function)},
             ts \in {typespec(function.returntype)} })

\* one turn of the loop of generate_service: the entry of one function;
\* when a call throws, out is what the stream holds by then
method_entry(function, st) ==
  LET method == st.out \o endl \o indent(st.ind) \o <<"(:method ">> \o prefix(function.name)
  IN The({ IF signature.thrown THEN [Thrown(signature.what, st.ind, st.lo) EXCEPT !.out = st.out]
           ELSE IF ts.thrown
             THEN [Thrown(ts.what, st.ind, st.lo) EXCEPT
                     !.out = IF build = "ltr"
                               THEN method \o <<" (">> \o signature.out \o <<" ">>
                               ELSE method]
           ELSE The({ IF x.thrown THEN x
                      ELSE [x EXCEPT
                              !.out = x.out
                                      \o (IF function.oneway
                                            THEN endl \o indent(x.ind) \o <<" :oneway t">>
                                            ELSE <<>>)
                                      \o <<")">>]
                      : x \in { IF Len(function.xceptions) > 0
                                  THEN generate_exception_sig(
                                         function,
                                         [st EXCEPT
                                            !.out = method \o <<" (">> \o signature.out
                                                    \o <<" ">> \o ts.out \o <<")">> \o endl
                                                    \o indent(st.ind) \o <<" :exceptions ">>])
                                  ELSE [st EXCEPT
                                          !.out = method \o <<" (">> \o signature.out
                                                  \o <<" ">> \o ts.out \o <<")">>] } })
           : signature \in {function_signature(function)},
             ts \in {typespec(function.returntype)} })

\* the loop of generate_service over the functions
RECURSIVE service_functions(_, _)
service_functions(functions, st) ==
  IF functions = <<>> \/ st.thrown THEN st
  ELSE The({ service_functions(Tail(functions), st2)
             : st2 \in {method_entry(Head(functions), st)} })

\* what generate_service writes for tservice, called at depth ind
service_text(tservice, ind) ==
  LET T == TypeTable(tservice)
      extends == IF T.extends # NULL THEN type_name(T.extends) ELSE <<>>
      extends_client == IF extends = <<>> THEN <<"nil">> ELSE prefix(extends)
      head == <<"(thrift:def-service ">> \o prefix(T.name) \o <<" ">> \o extends_client
              \o (IF T.has_doc
                    THEN endl \o indent(ind + 1) \o <<"(:documentation \"">>
                         \o cl_docstring(T.doc) \o <<"\")">>
                    ELSE <<>>)
  IN The({ IF r.thrown THEN r
           ELSE indent_down([r EXCEPT !.out = r.out \o <<")">> \o endl])
           : r \in {service_functions(T.functions, Running(head, ind + 1, ind))} })

(***************************************************************************)
(* The generator as a state machine                                        *)
(***************************************************************************)
NoRet ==
  [op |-> "none", type |-> NULL, value |-> NULL_VALUE, thrown |-> FALSE,
   what |-> <<>>, out |-> <<>>]

\* the top-level constants of the model, for one choice of g and o
Const(n, t, v) == [name |-> n, type |-> t, value |-> v]

ConstDecls(g, o) ==
  { Const(<<"c", "A">>, "TdPer", LitPersonRev(g, o)),
    Const(<<"c", "B">>, "Per", LitMixed(g, o)),
    Const(<<"c", "D">>, "map_string_i32", LitStrMap(g, o)),
    Const(<<"c", "E">>, "Box", LitBox(g, o)),
    Const(<<"c", "F">>, "string", CvString(sQuote, g)),
    Const(<<"c", "H">>, "i32", LitInts(g)) }

Consts == UNION {ConstDecls(g, o) : g \in Garbage, o \in AddrOrders}

IdsOfKind(k) == {t \in TypeIds : TypeTable(t).kind = k}

\* an ofstream <<: the text joins what the stream holds
Write(stream, text) == IF text = <<>> THEN stream ELSE Append(stream, text)

Call(op, n) == [op |-> op, name |-> n]

Init ==
  /\ program_ \in Programs
  /\ build \in {"ltr", "rtl"}
  /\ phase = "constructed"
  /\ indent_ = 0
  /\ depth_lo = 0
  /\ f_types_ = <<>>
  /\ f_vars_ = <<>>
  /\ calls = <<>>
  /\ ret = NoRet

init_generator ==
  /\ phase = "constructed"
  /\ phase' = "open"
  /\ f_types_' = Write(f_types_, cl_autogen_comment \o endl \o package_def \o package_in)
  /\ f_vars_' = Write(f_vars_, cl_autogen_comment \o endl \o package_in)
  /\ UNCHANGED <<program_, build, indent_, depth_lo, calls, ret>>

close_generator ==
  /\ phase = "open"
  /\ phase' = "closed"
  /\ UNCHANGED <<program_, build, indent_, depth_lo, f_types_, f_vars_, calls, ret>>

\* the driver hands one more declaration to the generator
Handed == phase = "open" /\ Len(calls) < MaxDecls

generate_typedef ==
  /\ Handed
  /\ \E ttypedef \in {"TdI32", "TdPer"} :
       /\ calls' = Append(calls, Call("generate_typedef", TypeTable(ttypedef).name))
       /\ UNCHANGED <<program_, build, phase, indent_, depth_lo, f_types_, f_vars_, ret>>

generate_enum ==
  /\ Handed
  /\ \E tenum \in IdsOfKind("enum") :
       \E r \in {enum_text(tenum, indent_)} :
          /\ calls' = Append(calls, Call("generate_enum", TypeTable(tenum).name))
          /\ f_types_' = Write(f_types_, r.out)
          /\ indent_' = r.ind
          /\ depth_lo' = r.lo
          /\ UNCHANGED <<program_, build, phase, f_vars_, ret>>

\* generate_const writing to the stream of the types
generate_const_to_types ==
  /\ Handed
  /\ \E tconst \in Consts :
       \E r \in {render_const_value(tconst.type, tconst.value, indent_)},
          open \in {<<"(thrift:def-constant ">> \o prefix(tconst.name) \o <<" ">>} :
          /\ calls' = Append(calls, Call("generate_const", tconst.name))
          /\ f_types_' = IF ~r.thrown
                          THEN Write(f_types_, open \o r.out \o <<")">> \o endl \o endl)
                        ELSE IF build = "ltr" THEN Write(f_types_, open)
                        ELSE f_types_
          /\ phase' = IF r.thrown THEN "aborted" ELSE phase
          /\ indent_' = r.ind
          /\ depth_lo' = r.lo
          /\ UNCHANGED <<program_, build, f_vars_, ret>>

generate_const ==
  /\ Handed
  /\ \E tconst \in Consts :
       \E r \in {render_const_value(tconst.type, tconst.value, indent_)},
          open \in {<<"(thrift:def-constant ">> \o prefix(tconst.name) \o <<" ">>} :
          /\ calls' = Append(calls, Call("generate_const", tconst.name))
          /\ f_vars_' = IF ~r.thrown
                          THEN Write(f_vars_, open \o r.out \o <<")">> \o endl \o endl)
                        ELSE IF build = "ltr" THEN Write(f_vars_, open)
                        ELSE f_vars_
          /\ phase' = IF r.thrown THEN "aborted" ELSE phase
          /\ indent_' = r.ind
          /\ depth_lo' = r.lo
          /\ UNCHANGED <<program_, build, f_types_, ret>>

generate_struct ==
  /\ Handed
  /\ \E tstruct \in IdsOfKind("struct") :
       \E r \in {generate_cl_struct(tstruct, FALSE, indent_)} :
          /\ calls' = Append(calls, Call("generate_struct", TypeTable(tstruct).name))
          /\ f_types_' = Write(f_types_, r.out)
          /\ phase' = IF r.thrown THEN "aborted" ELSE phase
          /\ indent_' = r.ind
          /\ depth_lo' = r.lo
          /\ UNCHANGED <<program_, build, f_vars_, ret>>

generate_xception ==
  /\ Handed
  /\ \E txception \in IdsOfKind("xception") :
       \E r \in {generate_cl_struct(txception, TRUE, indent_)} :
          /\ calls' = Append(calls, Call("generate_xception", TypeTable(txception).name))
          /\ f_types_' = Write(f_types_, r.out)
          /\ phase' = IF r.thrown THEN "aborted" ELSE phase
          /\ indent_' = r.ind
          /\ depth_lo' = r.lo
          /\ UNCHANGED <<program_, build, f_vars_, ret>>

generate_service ==
  /\ Handed
  /\ \E tservice \in IdsOfKind("service") :
       \E r \in {service_text(tservice, indent_)} :
          /\ calls' = Append(calls, Call("generate_service", TypeTable(tservice).name))
          /\ f_types_' = Write(f_types_, r.out)
          /\ phase' = IF r.thrown THEN "aborted" ELSE phase
          /\ indent_' = r.ind
          /\ depth_lo' = r.lo
          /\ UNCHANGED <<program_, build, f_vars_, ret>>

Next ==
  \/ init_generator
  \/ generate_typedef
  \/ generate_enum
  \/ generate_const
  \/ generate_struct
  \/ generate_xception
  \/ generate_service
  \/ close_generator

\* one run of the generator over the declarations of a program
Spec == Init /\ [][Next]_vars

(***************************************************************************)
(* The functions applied to one input                                      *)
(***************************************************************************)
\* a call made at a depth a declaration's emission goes through
InitFn ==
  /\ program_ \in Programs
  /\ build \in {"ltr", "rtl"}
  /\ phase = "open"
  /\ indent_ \in {0, 1}
  /\ depth_lo = indent_
  /\ f_types_ = <<cl_autogen_comment \o endl \o package_def \o package_in>>
  /\ f_vars_ = <<cl_autogen_comment \o endl \o package_in>>
  /\ calls = <<>>
  /\ ret = NoRet

call_type_name ==
  /\ phase = "open" /\ ret.op = "none"
  /\ \E ttype \in TypeIds :
       /\ ret' = [NoRet EXCEPT !.op = "type_name", !.type = ttype, !.out = type_name(ttype)]
       /\ UNCHANGED <<program_, build, phase, indent_, depth_lo, f_types_, f_vars_, calls>>

call_typespec ==
  /\ phase = "open" /\ ret.op = "none"
  /\ \E t \in TypeIds :
       \E r \in {typespec(t)} :
          /\ ret' = [NoRet EXCEPT !.op = "typespec", !.type = t, !.thrown = r.thrown,
                                  !.what = r.what, !.out = r.out]
          /\ phase' = IF r.thrown THEN "aborted" ELSE phase
          /\ UNCHANGED <<program_, build, indent_, depth_lo, f_types_, f_vars_, calls>>

call_render_const_value ==
  /\ phase = "open" /\ ret.op = "none"
  /\ \E type \in TypeIds, value \in Values :
       \E r \in {render_const_value(type, value, indent_)} :
          /\ ret' = [NoRet EXCEPT !.op = "render_const_value", !.type = type,
                                  !.value = value, !.thrown = r.thrown, !.what = r.what,
                                  !.out = r.out]
          /\ phase' = IF r.thrown THEN "aborted" ELSE phase
          /\ indent_' = r.ind
          /\ depth_lo' = r.lo
          /\ UNCHANGED <<program_, build, f_types_, f_vars_, calls>>

NextFn ==
  \/ call_type_name
  \/ call_typespec
  \/ call_render_const_value

SpecFn == InitFn /\ [][NextFn]_vars


(***************************************************************************)
(* Properties of the name resolver and of the type specifications          *)
(***************************************************************************)
\* the namespace a program has for the target language: the declared one,
\* or the fixed default when it declares none
EffectiveNamespace(p) ==
  IF get_namespace(p) = <<>> THEN <<"thrift-generated">> ELSE get_namespace(p)

\* the declaring program is present, is not the current program, and its
\* namespace differs from the current program's
Qualified(t) ==
  /\ TypeTable(t).program \in Programs
  /\ TypeTable(t).program # program_
  /\ EffectiveNamespace(TypeTable(t).program) # EffectiveNamespace(program_)

\* C6: type_name writes the prefix <namespace>: exactly when the declaring
\* program is present, is not the current program and has another effective
\* namespace than the current program; otherwise the name has no prefix; and
\* the call changes nothing of the generator's state.
C6_TypeNamePrefix ==
  /\ [](ret.op = "type_name" =>
          /\ Qualified(ret.type) =>
               /\ IsPrefix(EffectiveNamespace(TypeTable(ret.type).program) \o <<":">>,
                           ret.out)
               /\ ~Contains(SubSeq(ret.out, 3, Len(ret.out)), ":")
          /\ ~Qualified(ret.type) => ~Contains(ret.out, ":"))
  /\ [][ret'.op = "type_name" =>
          UNCHANGED <<program_, build, phase, indent_, depth_lo, f_types_, f_vars_, calls>>]_vars

\* a struct of an included program with its own namespace was named
C6_Witness ==
  /\ ret.op = "type_name" /\ ret.type = "Pt" /\ program_ = "main"
  /\ ret.out = <<"other", ":", "p", "t">>

\* the type without its typedefs, at every level: two types of the same
\* shape differ in typedefs only
RECURSIVE Shape(_)
Shape(t) ==
  LET T == TypeTable(t)
  IN CASE T.kind = "typedef" -> Shape(T.underlying)
       [] T.kind \in {"list", "set"} -> <<T.kind, Shape(T.elem)>>
       [] T.kind = "map" -> <<T.kind, Shape(T.key), Shape(T.val)>>
       [] OTHER -> <<T.kind, t>>

\* C7: typedefs are transparent to typespec: the type specification of a
\* type equals that of its true type, and that of every type that differs
\* from it only in typedefs, nested ones included.
C7_TypedefTransparent ==
  ret.op = "typespec" =>
    /\ typespec(get_true_type(ret.type)).thrown = ret.thrown
    /\ typespec(get_true_type(ret.type)).out = ret.out
    /\ \A u \in TypeIds :
         Shape(u) = Shape(ret.type) =>
           typespec(u).thrown = ret.thrown /\ typespec(u).out = ret.out

\* the specification of a typedef of a list of a typedef of a typedef
C7_Witness ==
  /\ ret.op = "typespec" /\ ret.type = "TdList" /\ ~ret.thrown
  /\ ret.out = <<"(list ", "i32", ")">>


(***************************************************************************)
(* Properties of the constant renderer                                     *)
(***************************************************************************)
\* the resolved true type of the last call
RetType == TypeTable(get_true_type(ret.type))

RenderedStruct == ret.op = "render_const_value" /\ RetType.kind \in {"struct", "xception"}

FieldNames(T) == {T.members[i].name : i \in 1..Len(T.members)}

\* the string of the unknown-field error for key k of struct T
UnknownField(T, k) == <<"type error: ">> \o T.name \o <<" has no field ">> \o k

\* the entries of the literal whose key names no field of T
UnknownAt(T, entries) ==
  {i \in 1..Len(entries) : entries[i].first.stringVal \notin FieldNames(T)}

\* the error, if any, of rendering the value of a known entry e of a literal
\* of struct T
NestedThrow(T, e) ==
  render_const_value(find_field_type(T.members, e.first.stringVal, NULL), e.second, 0)

\* C1 as stated: for every key of a struct literal that names no field, the
\* call fails with the unknown-field error carrying that key's name and the
\* struct's name and returns no text; with every key known, no such error.
C1_EveryUnknownKeyReported ==
  RenderedStruct =>
    \A i \in 1..Len(ret.value.mapVal) :
      LET k == ret.value.mapVal[i].first.stringVal
      IN IF k \notin FieldNames(RetType)
           THEN ret.thrown /\ ret.out = <<>> /\ ret.what = UnknownField(RetType, k)
           ELSE UnknownAt(RetType, ret.value.mapVal) = {} =>
                  ~(ret.thrown /\ ret.what = UnknownField(RetType, k))

\* C1, amended: a struct literal with a key that names no field makes the
\* call fail and return no text; the error is the unknown-field error with
\* the struct's name and the name of the first such key in the map's
\* iteration order, unless the value of an entry before it failed to render,
\* whose error is then the one thrown; with every key known, the only errors
\* are those of rendering the values.
C1_FirstUnknownKeyReported ==
  RenderedStruct =>
    LET it == map_iteration(ret.value.mapVal)
        U == UnknownAt(RetType, it)
    IN IF U # {}
         THEN LET i0 == CHOOSE i \in U : \A j \in U : i <= j
              IN /\ ret.thrown
                 /\ ret.out = <<>>
                 /\ \/ ret.what = UnknownField(RetType, it[i0].first.stringVal)
                    \/ \E j \in 1..(i0 - 1) :
                         /\ NestedThrow(RetType, it[j]).thrown
                         /\ NestedThrow(RetType, it[j]).what = ret.what
         ELSE ret.thrown =>
                \E j \in 1..Len(it) :
                  /\ NestedThrow(RetType, it[j]).thrown
                  /\ NestedThrow(RetType, it[j]).what = ret.what

\* a literal with two unknown keys: the error names the one whose key object
\* has the lower address, written second
C1_Witness ==
  /\ RenderedStruct /\ ret.type = "Per" /\ ret.value = LitTwoUnknown(0, 2)
  /\ ret.thrown /\ ret.out = <<>>
  /\ ret.what = UnknownField(TypeTable("Per"), nYy)

\* the literal with the key objects at ascending addresses in the order the
\* literal wrote them, at every level
RECURSIVE InWrittenOrder(_)
InWrittenOrder(v) ==
  [v EXCEPT
     !.listVal = [i \in 1..Len(v.listVal) |-> InWrittenOrder(v.listVal[i])],
     !.mapVal = [i \in 1..Len(v.mapVal) |->
                   Entry(InWrittenOrder(v.mapVal[i].first),
                         InWrittenOrder(v.mapVal[i].second), i)]]

\* the variants of a value a type takes
Compatible(T, valType) ==
  CASE T.kind = "base" /\ T.base = "string" -> valType = "CV_STRING"
    [] T.kind = "base" /\ T.base \in {"bool", "byte", "i32"} -> valType = "CV_INTEGER"
    [] T.kind = "base" /\ T.base = "double" -> valType \in {"CV_INTEGER", "CV_DOUBLE"}
    [] T.kind = "enum" -> valType = "CV_INTEGER"
    [] T.kind \in {"struct", "xception", "map"} -> valType = "CV_MAP"
    [] T.kind \in {"list", "set"} -> valType = "CV_LIST"
    [] OTHER -> FALSE

\* the literal has the shape of its type at every level, and every key of a
\* struct literal names a field
RECURSIVE WellTyped(_, _)
WellTyped(t, v) ==
  LET T == TypeTable(get_true_type(t))
  IN /\ Compatible(T, v.valType)
     /\ T.kind \in {"struct", "xception"} =>
          \A i \in 1..Len(v.mapVal) :
            /\ v.mapVal[i].first.stringVal \in FieldNames(T)
            /\ WellTyped(find_field_type(T.members, v.mapVal[i].first.stringVal, NULL),
                         v.mapVal[i].second)
     /\ T.kind = "map" =>
          \A i \in 1..Len(v.mapVal) :
            WellTyped(T.key, v.mapVal[i].first) /\ WellTyped(T.val, v.mapVal[i].second)
     /\ T.kind \in {"list", "set"} =>
          \A i \in 1..Len(v.listVal) : WellTyped(T.elem, v.listVal[i])

\* C2: the entries of a struct, exception or map constant are written in the
\* order the literal wrote its pairs, each value against the type of the
\* field its key names or against the map's value type.
C2_EntriesInLiteralOrder ==
  (/\ ret.op = "render_const_value"
   /\ RetType.kind \in {"struct", "xception", "map"}
   /\ WellTyped(ret.type, ret.value))
  => /\ ~ret.thrown
     /\ ret.out = render_const_value(ret.type, InWrittenOrder(ret.value), indent_).out

\* a type render_const_value has a branch for
Renderable(T) ==
  \/ T.kind = "base" /\ T.base # "void"
  \/ T.kind \in {"enum", "struct", "xception", "map", "list", "set"}

Mismatched ==
  /\ ret.op = "render_const_value"
  /\ Renderable(RetType)
  /\ ~Compatible(RetType, ret.value.valType)

\* C3 as stated: a value whose variant is incompatible with the variant of
\* the true type makes the call fail and return no text.
C3_MismatchFails == Mismatched => ret.thrown /\ ret.out = <<>>

\* the text of a number read from a field that was never set
GarbageTexts ==
  {FormatInteger(g) : g \in Garbage} \cup {FormatDouble(g) : g \in Garbage}

\* C3, amended: the variant of the value is not checked against the type: for
\* an incompatible pair the call raises no error and returns the text of the
\* type's branch, computed from what the value's fields hold: no entries for
\* a struct, map, list or set, the empty string for a string, a field that
\* was never set for a number, a boolean or an enum.
C3_MismatchRendered ==
  Mismatched =>
    /\ ~ret.thrown
    /\ ret.out # <<>>
    /\ RetType.kind \in {"struct", "xception", "map"} =>
         ret.out = render_const_value(ret.type, CvMap(<<>>, 0), indent_).out
    /\ RetType.kind \in {"list", "set"} =>
         ret.out = render_const_value(ret.type, CvList(<<>>, 0), indent_).out
    /\ RetType.kind = "base" /\ RetType.base = "string" => ret.out = <<"\"", "\"">>
    /\ RetType.kind = "base" /\ RetType.base = "bool" => ret.out \in {<<"t">>, <<"nil">>}
    /\ RetType.kind = "base" /\ RetType.base \in {"byte", "i32", "double"} =>
         ret.out \in GarbageTexts
    /\ RetType.kind = "enum" => \E x \in GarbageTexts : ret.out = indent(indent_) \o x

\* a list literal rendered against i32
C3_Witness ==
  /\ Mismatched /\ ret.type = "i32" /\ ret.value = LitInts(7)
  /\ ~ret.thrown /\ ret.out = <<"7">>

\* from position i on, s holds escaped characters up to its last element,
\* which is the one unescaped double quote
RECURSIVE EscapedUpToQuote(_, _)
EscapedUpToQuote(s, i) ==
  IF i > Len(s) THEN FALSE
  ELSE IF s[i] = "\"" THEN i = Len(s)
  ELSE IF s[i] = "\\" THEN EscapedUpToQuote(s, i + 2)
  ELSE EscapedUpToQuote(s, i + 1)

\* C4: a string constant of a string type is written between two double
\* quotes with every double quote and escape character inside escaped: the
\* only unescaped double quotes are the first and the last character.
C4_StringQuotedEscaped ==
  (/\ ret.op = "render_const_value"
   /\ RetType.kind = "base" /\ RetType.base = "string"
   /\ ret.value.valType = "CV_STRING")
  => /\ ~ret.thrown
     /\ Len(ret.out) >= 2
     /\ ret.out[1] = "\""
     /\ EscapedUpToQuote(ret.out, 2)

\* the first position of x in s
IndexOf(s, x) == CHOOSE i \in 1..Len(s) : s[i] = x /\ \A j \in 1..(i - 1) : s[j] # x

\* the name in the wrapper of a rendered struct literal
WrapperName(out) == SubSeq(out, 2, IndexOf(out, " ") - 1)

\* the name in (struct "<name>")
StructSpecName(ts) == SubSeq(ts, 3, Len(ts) - 2)

\* C5: the name in the wrapper of a struct or exception literal is the
\* qualified name typespec writes for the type, namespace prefix included.
C5_WrapperNameAsTypespec ==
  (RenderedStruct /\ WellTyped(ret.type, ret.value))
  => WrapperName(ret.out) = StructSpecName(typespec(ret.type).out)


(***************************************************************************)
(* Properties of a run of the generator                                    *)
(***************************************************************************)
IsConstCall(c) == c.op = "generate_const"

IsTypeCall(c) ==
  c.op \in {"generate_enum", "generate_struct", "generate_xception", "generate_service"}

\* the calls that returned: all of them, but the last of an aborted run
Completed == IF phase = "aborted" THEN SubSeq(calls, 1, Len(calls) - 1) ELSE calls

\* the declaration of kind k named n
Named(k, n) == CHOOSE t \in IdsOfKind(k) : TypeTable(t).name = n

\* the k-th position of x in s
NthIndexOf(s, x, k) ==
  CHOOSE i \in 1..Len(s) :
    s[i] = x /\ Cardinality({j \in 1..(i - 1) : s[j] = x}) = k - 1

\* the k-th of the n method entries of the text of a service
MethodEntryOf(text, k, n) ==
  SubSeq(text, NthIndexOf(text, "(:method ", k),
         IF k < n THEN NthIndexOf(text, "(:method ", k + 1) - 1 ELSE Len(text))

\* C8: in the text of a service there is one method entry per function, in
\* the order of the functions; an entry holds the exception clause exactly
\* when its function declares an exception, and the one-way marker exactly
\* when its function is one-way.
C8_MethodEntries ==
  LET tc == SelectSeq(Completed, IsTypeCall)
  IN \A j \in 1..Len(tc) :
       tc[j].op = "generate_service" =>
         LET fs == TypeTable(Named("service", tc[j].name)).functions
             text == f_types_[j + 1]
         IN /\ Cardinality({i \in 1..Len(text) : text[i] = "(:method "}) = Len(fs)
            /\ \A k \in 1..Len(fs) :
                 LET e == MethodEntryOf(text, k, Len(fs))
                 IN /\ IsPrefix(<<"(:method ">> \o prefix(fs[k].name), e)
                    /\ Contains(e, " :exceptions ") <=> (Len(fs[k].xceptions) > 0)
                    /\ Contains(e, " :oneway t") <=> fs[k].oneway

\* a service with a one-way function without exceptions between two
\* functions with exceptions was written
C8_Witness ==
  /\ phase = "open" /\ Len(calls) = 1 /\ calls[1] = Call("generate_service", <<"S", "v">>)
  /\ Len(f_types_) = 2
  /\ Contains(f_types_[2], " :exceptions ") /\ Contains(f_types_[2], " :oneway t")

\* the first elements of the text a completed call wrote
Opening(c) ==
  CASE c.op = "generate_const" -> <<"(thrift:def-constant ">> \o prefix(c.name)
    [] c.op = "generate_enum" -> <<"(thrift:def-enum ">> \o prefix(c.name)
    [] c.op = "generate_service" -> <<"(thrift:def-service ">> \o prefix(c.name)
    [] c.op = "generate_struct" ->
         <<"(thrift:def-struct ">> \o prefix(type_name(Named("struct", c.name)))
    [] c.op = "generate_xception" ->
         <<"(thrift:def-exception ">> \o prefix(type_name(Named("xception", c.name)))

\* stream holds, after its header, one text per call of cs, in their order
OnePerCall(stream, cs) ==
  /\ Len(stream) >= 1 + Len(cs)
  /\ phase # "aborted" => Len(stream) = 1 + Len(cs)
  /\ \A i \in 1..Len(cs) :
       /\ IsPrefix(Opening(cs[i]), stream[i + 1])
       /\ stream[i + 1][Len(stream[i + 1])] = "\n"

\* C9: between init_generator and close_generator, generate_const appends to
\* the stream of the constants only, generate_enum, generate_struct,
\* generate_xception and generate_service to the stream of the types only,
\* generate_typedef to neither; each stream holds one construct per completed
\* call, in the order of the calls, and nothing written is removed or changed.
C9_StreamsInCallOrder ==
  /\ [](phase \in {"open", "closed", "aborted"} =>
          /\ OnePerCall(f_vars_, SelectSeq(Completed, IsConstCall))
          /\ OnePerCall(f_types_, SelectSeq(Completed, IsTypeCall)))
  /\ [][/\ IsPrefix(f_types_, f_types_')
        /\ IsPrefix(f_vars_, f_vars_')
        /\ calls' # calls =>
             LET c == calls'[Len(calls')]
             IN /\ IsConstCall(c) => f_types_' = f_types_
                /\ IsTypeCall(c) => f_vars_' = f_vars_
                /\ c.op = "generate_typedef" => f_types_' = f_types_ /\ f_vars_' = f_vars_]_vars

\* a constant was written between an enum and nothing else
C9_Witness ==
  /\ phase = "closed" /\ Len(calls) = 2
  /\ calls[1].op = "generate_const" /\ calls[2].op = "generate_enum"
  /\ Len(f_vars_) = 2 /\ Len(f_types_) = 2

\* C10: a generate_* call that returns leaves the indentation depth as it
\* found it, whatever constants and defaults it rendered, and the depth was
\* never negative during the call; so between declarations the depth is the
\* initial one.
C10_DepthScoped ==
  /\ [](phase # "aborted" => indent_ = 0 /\ depth_lo >= 0)
  /\ [][(calls' # calls /\ phase' # "aborted") =>
          (indent_' = indent_ /\ depth_lo' >= 0)]_vars

\* a constant of a struct holding a struct and a set, then a struct with a
\* struct default, were written
C10_Witness ==
  /\ phase = "open" /\ indent_ = 0 /\ Len(calls) = 2
  /\ calls[1] = Call("generate_const", <<"c", "E">>)
  /\ calls[2] = Call("generate_struct", <<"B", "o", "x">>)


====
